---- MODULE Spec2Model ----
(***************************************************************************)
(* A model of the user-space dynamic linker of android-loader             *)
(* (src/src/android_loader.rs): symbol resolution with hooks and stubs,   *)
(* the three loader phases allocate / load / relocate, and the dlopen     *)
(* stub that re-enters load_library.                                      *)
(*                                                                         *)
(* Conventions.  A usize value is the sequence of its base-256 digits,    *)
(* least significant first, of length size_of::<usize>() of the build;    *)
(* wrapping_add is digit addition with the final carry dropped.  The      *)
(* anonymous mapping is a length plus the set of its non-zero bytes (a    *)
(* fresh mapping is zero-filled).  A name is the sequence of its          *)
(* characters.                                                             *)
(***************************************************************************)
EXTENDS Integers, Sequences, FiniteSets, TLC

VARIABLES
    host,        \* the build and the machine: target_arch, endianness, page size
    entry,       \* who entered the loader: "load_library" or the "dlopen" stub
    pc,          \* position in load_library
    elf,         \* the parsed ELF view (program headers, .dynsym), or None
    library,     \* the AndroidLibrary under construction, or None
    protection,  \* page index of the mapping -> set of "R", "W", "X"
    k,           \* number of PT_LOAD headers already handed to load
    hooks,       \* the hook snapshot taken by relocate
    relocs,      \* the entries handed to relocate
    outcome,     \* how the current phase ended
    ret,         \* what the caller of load_library / dlopen observes
    sym_name,    \* the name last handed to symbol_finder
    sym_result   \* the address symbol_finder returned for it

vars == <<host, entry, pc, elf, library, protection, k, hooks, relocs,
          outcome, ret, sym_name, sym_result>>

loader_vars == <<entry, pc, elf, library, protection, k, relocs, outcome, ret>>

\* Option<T>: None is the empty sequence, Some(v) is <<v>>
None == << >>

Some(v) == <<v>>

is_some(o) == Len(o) = 1

unwrap(o) == o[1]

(***************************************************************************)
(* Bounds of the model.                                                    *)
(***************************************************************************)
MaxSegments == 2
MaxRelocs == 2

(***************************************************************************)
(* The build and the machine.                                              *)
(***************************************************************************)
PageSizes == {4096, 16384}

Hosts ==
    [target_arch : {"x86", "x86_64"}, big_endian : {FALSE}, page_size : PageSizes]
    \cup
    [target_arch : {"aarch64"}, big_endian : BOOLEAN, page_size : PageSizes]

\* std::mem::size_of::<usize>() of the build
size_of_usize == IF host.target_arch = "x86" THEN 4 ELSE 8

\* region::page::size()
page_size == host.page_size

page_floor(a) == a - (a % page_size)

page_ceil(a) == page_floor(a + page_size - 1)

MAX_PAGE_SIZE == IF host.target_arch = "aarch64" THEN 65536 ELSE 4096

(***************************************************************************)
(* usize arithmetic on digit sequences.                                    *)
(***************************************************************************)
Reverse(s) == [i \in 1..Len(s) |-> s[Len(s) + 1 - i]]

Zeros(n) == [i \in 1..n |-> 0]

\* `as usize` of a wider or narrower unsigned value: truncate or zero-extend
as_usize(w) ==
    [i \in 1..size_of_usize |-> IF i <= Len(w) THEN w[i] ELSE 0]

RECURSIVE AddCarry(_, _, _, _)
AddCarry(a, b, i, carry) ==
    IF i > Len(a) THEN << >>
    ELSE LET s == a[i] + b[i] + carry
         IN  <<s % 256>> \o AddCarry(a, b, i + 1, s \div 256)

\* usize::wrapping_add
wrapping_add(a, b) == AddCarry(a, b, 1, 0)

\* usize::to_ne_bytes / usize::from_ne_bytes
to_ne_bytes(w) == IF host.big_endian THEN Reverse(w) ELSE w

from_ne_bytes(bs) == IF host.big_endian THEN Reverse(bs) ELSE bs

(***************************************************************************)
(* Symbol names.                                                           *)
(***************************************************************************)
Name_empty == << >>
Name_pthread_ == <<"p", "t", "h", "r", "e", "a", "d", "_">>
Name_pthread == <<"p", "t", "h", "r", "e", "a", "d">>
Name_pthread_create == Name_pthread_ \o <<"c", "r", "e", "a", "t", "e">>
Name_dlopen == <<"d", "l", "o", "p", "e", "n">>
Name_dlsym == <<"d", "l", "s", "y", "m">>
Name_dlclose == <<"d", "l", "c", "l", "o", "s", "e">>
Name_dlopen2 == Name_dlopen \o <<"2">>
Name_arc4random == <<"a", "r", "c", "4", "r", "a", "n", "d", "o", "m">>
Name_export == <<"k", "q", "5", "6">>

Names == {Name_empty, Name_pthread_, Name_pthread, Name_pthread_create,
          Name_dlopen, Name_dlsym, Name_dlclose, Name_dlopen2,
          Name_arc4random, Name_export}

\* str::starts_with
starts_with(s, prefix) ==
    /\ Len(s) >= Len(prefix)
    /\ SubSeq(s, 1, Len(prefix)) = prefix

(***************************************************************************)
(* Addresses of host functions (digits of a 64-bit address; a 32-bit      *)
(* build sees the low four).                                               *)
(***************************************************************************)
FnAddr(lo) == as_usize(<<lo, 16, 64, 0, 85, 85, 0, 0>>)

pthread_stub == FnAddr(16)
undefined_symbol_stub == FnAddr(32)
dlopen == FnAddr(48)
dlsym == FnAddr(64)
dlclose == FnAddr(80)

\* what calling a built-in stub does
call_stub(addr) ==
    IF addr = pthread_stub THEN 0
    ELSE IF addr = undefined_symbol_stub THEN "panic"
    ELSE "dl"

\* host functions registered as hooks
HookFn(lo) == as_usize(<<lo, 32, 64, 0, 85, 85, 0, 0>>)

NoHooks == << >>
HooksAll == (Name_arc4random :> HookFn(1)) @@ (Name_pthread_create :> HookFn(2))
            @@ (Name_dlopen :> HookFn(3)) @@ (Name_dlclose :> HookFn(4))
            @@ (Name_export :> HookFn(5))

HookSnapshots == {NoHooks, HooksAll}

(***************************************************************************)
(* Symbol resolution.                                                      *)
(***************************************************************************)
get_libc_symbol(symbol_name) ==
    IF starts_with(symbol_name, Name_pthread_) THEN pthread_stub
    ELSE IF symbol_name = Name_dlopen THEN dlopen
    ELSE IF symbol_name = Name_dlsym THEN dlsym
    ELSE IF symbol_name = Name_dlclose THEN dlclose
    ELSE undefined_symbol_stub

\* mutant: the built-in pthread stub is chosen before the hooks are consulted
symbol_finder_stub_first(symbol_name, lib, hook_map) ==
    IF starts_with(symbol_name, Name_pthread_) THEN pthread_stub
    ELSE IF symbol_name \in DOMAIN hook_map THEN hook_map[symbol_name]
    ELSE get_libc_symbol(symbol_name)

\* mutant: a name the library defines itself resolves into the image
symbol_finder_own_exports(symbol_name, lib, hook_map) ==
    IF symbol_name \in DOMAIN hook_map THEN hook_map[symbol_name]
    ELSE IF symbol_name \in DOMAIN lib.symbols
    THEN wrapping_add(lib.memory_map.base, as_usize(<<lib.symbols[symbol_name].value>>))
    ELSE get_libc_symbol(symbol_name)

symbol_finder(symbol_name, lib, hook_map) ==
    IF symbol_name \in DOMAIN hook_map
    THEN hook_map[symbol_name]
    ELSE get_libc_symbol(symbol_name)

(***************************************************************************)
(* The ELF view handed over by the decoder.                                *)
(***************************************************************************)
Archs == {"x86", "x86_64", "Arm", "AArch64"}

\* PT_LOAD program headers with the file bytes of their segment
Header_text ==
    [virtual_addr |-> 0, file_size |-> 8, mem_size |-> 8, flags |-> {"R", "X"},
     region |-> <<85, 72, 137, 229, 93, 195, 144, 144>>]

Header_data ==
    [virtual_addr |-> 4096, file_size |-> 16, mem_size |-> 24, flags |-> {"R", "W"},
     region |-> <<8, 16, 0, 0, 4, 0, 0, 0, 255, 255, 255, 255, 1, 0, 0, 0>>]

Header_unaligned ==
    [virtual_addr |-> 4095, file_size |-> 2, mem_size |-> 2, flags |-> {"R", "W"},
     region |-> <<1, 2>>]

Header_high ==
    [virtual_addr |-> 65536, file_size |-> 4, mem_size |-> 4, flags |-> {"R", "W"},
     region |-> <<7, 0, 0, 0>>]

Header_bss ==
    [virtual_addr |-> 8192, file_size |-> 0, mem_size |-> 0, flags |-> {"R", "W"},
     region |-> << >>]

ProgramHeaders == {Header_text, Header_data, Header_unaligned, Header_high, Header_bss}

SeqsUpTo(S, n) == UNION {[1..m -> S] : m \in 0..n}

\* a shared object has at least one PT_LOAD header, and they come in
\* ascending order of virtual address
HeaderLists ==
    {hs \in SeqsUpTo(ProgramHeaders, MaxSegments) :
        /\ Len(hs) >= 1
        /\ \A i \in 1..(Len(hs) - 1) : hs[i].virtual_addr < hs[i + 1].virtual_addr}

\* .dynsym: entry 0 is the null symbol
Sym(n, v) == [name |-> n, value |-> v]

DynsymSections ==
    {None,
     Some([data |-> "DynSymbolTable64",
           entries |-> <<Sym(Name_empty, 0), Sym(Name_pthread_create, 0),
                         Sym(Name_arc4random, 0), Sym(Name_export, 4)>>]),
     Some([data |-> "DynSymbolTable32",
           entries |-> <<Sym(Name_empty, 0), Sym(Name_export, 4),
                         Sym(Name_dlopen, 0), Sym(Name_export, 8)>>]),
     Some([data |-> "Undefined", entries |-> << >>])}

ElfFiles == [machine : Archs, headers : HeaderLists, dynsym : DynsymSections]

(***************************************************************************)
(* The memory image.                                                       *)
(***************************************************************************)
\* addresses the host hands out for anonymous mappings (page-aligned)
MmapAddrs == {<<0, 0, 32, 1, 127, 127, 0, 0>>}

byte_at(memory_map, o) ==
    IF o \in DOMAIN memory_map.bytes THEN memory_map.bytes[o] ELSE 0

\* memory_map[offset..offset + n]
slice(memory_map, offset, n) == [i \in 1..n |-> byte_at(memory_map, offset + i - 1)]

\* memory_map[offset..offset + bs.len()].copy_from_slice(bs)
copy_from_slice(memory_map, offset, bs) ==
    LET range == offset..(offset + Len(bs) - 1)
        value(o) == IF o \in range THEN bs[o - offset + 1] ELSE memory_map.bytes[o]
        keep == {o \in DOMAIN memory_map.bytes \cup range : value(o) # 0}
    IN  [memory_map EXCEPT !.bytes = [o \in keep |-> value(o)]]

\* the pages of the mapping that the bytes [offset, offset + n) lie on
pages_of(offset, n) ==
    IF n = 0 THEN {} ELSE (offset \div page_size)..((offset + n - 1) \div page_size)

\* an access the hardware lets through
accessible(prot, offset, n, right) ==
    \A p \in pages_of(offset, n) : p \in DOMAIN prot => right \in prot[p]

(***************************************************************************)
(* allocate                                                                *)
(***************************************************************************)
\* HashMap::insert
insert(map, key, value) ==
    [x \in DOMAIN map \cup {key} |-> IF x = key THEN value ELSE map[x]]

\* mutant: the index is advanced before the name is recorded
RECURSIVE ingest_symbols_count_first(_, _, _, _)
ingest_symbols_count_first(entries, i, symbols, strings) ==
    IF i >= Len(entries) THEN [symbols |-> symbols, strings |-> strings]
    ELSE LET s == entries[i + 1]
         IN  ingest_symbols_count_first(entries, i + 1,
                            insert(symbols, s.name, Sym(s.name, s.value)),
                            insert(strings, i + 1, s.name))

RECURSIVE ingest_symbols(_, _, _, _)
ingest_symbols(entries, i, symbols, strings) ==
    IF i >= Len(entries) THEN [symbols |-> symbols, strings |-> strings]
    ELSE LET s == entries[i + 1]
         IN  ingest_symbols(entries, i + 1,
                            insert(symbols, s.name, Sym(s.name, s.value)),
                            insert(strings, i, s.name))

segment_start(header) == page_floor(header.virtual_addr)

segment_end(header) ==
    LET size == IF header.file_size > header.mem_size
                THEN header.file_size ELSE header.mem_size
    IN  page_ceil(segment_start(header) + size)

SetMin(S) == CHOOSE x \in S : \A y \in S : x <= y

SetMax(S) == CHOOSE x \in S : \A y \in S : x >= y

\* alloc_end - alloc_start, for at least one PT_LOAD header
alloc_len(load_headers) ==
    LET idx == 1..Len(load_headers)
        minimum == SetMin({segment_start(load_headers[i]) : i \in idx})
        maximum == SetMax({segment_end(load_headers[i]) : i \in idx})
    IN  page_ceil(maximum) - page_floor(minimum)

allocate(load_headers, dynsym, mmap) ==
    LET len == alloc_len(load_headers)
        tables == IF unwrap(dynsym).data \in {"DynSymbolTable64", "DynSymbolTable32"}
                  THEN ingest_symbols(unwrap(dynsym).entries, 0, << >>, << >>)
                  ELSE [symbols |-> << >>, strings |-> << >>]
    IN  IF ~is_some(dynsym) THEN [result |-> "panic", library |-> None]
        ELSE IF ~is_some(mmap) THEN [result |-> "ElfParser", library |-> None]
        ELSE [result |-> "Ok",
              library |-> Some([memory_map |-> [base |-> as_usize(unwrap(mmap)),
                                                len |-> len,
                                                bytes |-> << >>],
                                symbols |-> tables.symbols,
                                strings |-> tables.strings])]

\* a fresh anonymous mapping is readable and writable
fresh_protection(len) == [p \in 0..((len \div page_size) - 1) |-> {"R", "W"}]

(***************************************************************************)
(* load                                                                    *)
(***************************************************************************)
is_standard_page == page_size <= MAX_PAGE_SIZE

segment_protection(flags) ==
    {f \in {"R", "W", "X"} : f \in flags \/ ~is_standard_page}

\* the pages [page_floor(addr + virtual_addr), page_ceil(addr + virtual_addr + mem_size))
\* relative to the page-aligned image address
protect_pages(header) ==
    {p \in 0..(page_ceil(header.virtual_addr + header.mem_size) \div page_size) :
        /\ p * page_size >= page_floor(header.virtual_addr)
        /\ p * page_size < page_ceil(header.virtual_addr + header.mem_size)}

load(lib, prot, header, host_rejects) ==
    LET virtual_addr == header.virtual_addr
        file_size == header.file_size
        copied == [lib EXCEPT !.memory_map =
                      copy_from_slice(lib.memory_map, virtual_addr, header.region)]
        span == protect_pages(header)
        new_prot == [p \in DOMAIN prot |->
                        IF p \in span THEN segment_protection(header.flags) ELSE prot[p]]
    IN  IF virtual_addr + file_size > lib.memory_map.len
        THEN [result |-> "panic", library |-> lib, protection |-> prot]
        ELSE IF ~accessible(prot, virtual_addr, file_size, "W")
        THEN [result |-> "fault", library |-> lib, protection |-> prot]
        ELSE IF span = {} \/ host_rejects
        THEN [result |-> "panic", library |-> copied, protection |-> prot]
        ELSE [result |-> "Ok", library |-> copied, protection |-> new_prot]

(***************************************************************************)
(* relocate                                                                *)
(***************************************************************************)
Reloc(arch, kind, offset, index, addend) ==
    [rtype |-> [arch |-> arch, kind |-> kind], offset |-> offset,
     index |-> index, addend |-> addend]

\* memory_map[offset..offset + size_of::<usize>()] read as a usize
read_usize(lib, prot, offset) ==
    IF offset + size_of_usize > lib.memory_map.len
    THEN [result |-> "panic", value |-> Zeros(size_of_usize)]
    ELSE IF ~accessible(prot, offset, size_of_usize, "R")
    THEN [result |-> "fault", value |-> Zeros(size_of_usize)]
    ELSE [result |-> "Ok",
          value |-> from_ne_bytes(slice(lib.memory_map, offset, size_of_usize))]

\* memory_map[offset..offset + relocated.len()].copy_from_slice(&relocated)
write_relocated(lib, prot, offset, relocated) ==
    IF offset + Len(relocated) > lib.memory_map.len
    THEN [result |-> "panic", library |-> lib]
    ELSE IF ~accessible(prot, offset, Len(relocated), "W")
    THEN [result |-> "fault", library |-> lib]
    ELSE [result |-> "Ok",
          library |-> [lib EXCEPT !.memory_map =
                          copy_from_slice(lib.memory_map, offset, relocated)]]

absolute_reloc(lib, prot, hook_map, e, addend) ==
    IF e.index \notin DOMAIN lib.strings
    THEN [result |-> "panic", library |-> lib]
    ELSE LET symbol == symbol_finder(lib.strings[e.index], lib, hook_map)
             relocated == to_ne_bytes(wrapping_add(addend, symbol))
         IN  write_relocated(lib, prot, e.offset, relocated)

relative_reloc(lib, prot, e, addend) ==
    LET relocated == to_ne_bytes(wrapping_add(addend, lib.memory_map.base))
    IN  write_relocated(lib, prot, e.offset, relocated)

\* the match on entry.rtype: REL machines read the addend in place before
\* looking at the kind, RELA machines require the explicit one
relocate_entry(lib, prot, hook_map, e) ==
    LET kind == e.rtype.kind
        in_place == read_usize(lib, prot, e.offset)
        failed(result) == [result |-> result, library |-> lib]
        unsupported == failed("UnsupportedRelocationEntry")
    IN  CASE e.rtype.arch = "x86" ->
                IF in_place.result # "Ok" THEN failed(in_place.result)
                ELSE IF kind \in {"R_386_GLOB_DAT", "R_386_JMP_SLOT"}
                THEN absolute_reloc(lib, prot, hook_map, e, Zeros(size_of_usize))
                ELSE IF kind = "R_386_RELATIVE"
                THEN relative_reloc(lib, prot, e, in_place.value)
                ELSE IF kind = "R_386_32"
                THEN absolute_reloc(lib, prot, hook_map, e, in_place.value)
                ELSE unsupported
          [] e.rtype.arch = "x86_64" ->
                IF ~is_some(e.addend) THEN unsupported
                ELSE IF kind \in {"R_AMD64_JMP_SLOT", "R_AMD64_GLOB_DAT", "R_AMD64_64"}
                THEN absolute_reloc(lib, prot, hook_map, e, as_usize(unwrap(e.addend)))
                ELSE IF kind = "R_AMD64_RELATIVE"
                THEN relative_reloc(lib, prot, e, as_usize(unwrap(e.addend)))
                ELSE unsupported
          [] e.rtype.arch = "Arm" ->
                IF in_place.result # "Ok" THEN failed(in_place.result)
                ELSE IF kind \in {"R_ARM_GLOB_DAT", "R_ARM_JUMP_SLOT"}
                THEN absolute_reloc(lib, prot, hook_map, e, Zeros(size_of_usize))
                ELSE IF kind = "R_ARM_RELATIVE"
                THEN relative_reloc(lib, prot, e, in_place.value)
                ELSE IF kind = "R_ARM_ABS32"
                THEN absolute_reloc(lib, prot, hook_map, e, in_place.value)
                ELSE unsupported
          [] e.rtype.arch = "AArch64" ->
                IF ~is_some(e.addend) THEN unsupported
                ELSE IF kind \in {"R_AARCH64_JUMP_SLOT", "R_AARCH64_GLOB_DAT",
                                  "R_AARCH64_ABS64"}
                THEN absolute_reloc(lib, prot, hook_map, e, as_usize(unwrap(e.addend)))
                ELSE IF kind = "R_AARCH64_RELATIVE"
                THEN relative_reloc(lib, prot, e, as_usize(unwrap(e.addend)))
                ELSE unsupported

RECURSIVE relocate_from(_, _, _, _, _)
relocate_from(lib, prot, hook_map, entries, i) ==
    IF i > Len(entries) THEN [result |-> "Ok", library |-> lib]
    ELSE LET r == relocate_entry(lib, prot, hook_map, entries[i])
         IN  IF r.result # "Ok" THEN r
             ELSE relocate_from(r.library, prot, hook_map, entries, i + 1)

relocate(lib, prot, hook_map, entries) == relocate_from(lib, prot, hook_map, entries, 1)

\* the relocation entries of the model, per machine
U64(lo) == <<lo, 0, 0, 0, 0, 0, 0, 0>>

U64Neg == <<252, 255, 255, 255, 255, 255, 255, 255>>

U64High == <<4, 0, 0, 0, 1, 0, 0, 0>>

RelocEntries(machine) ==
    IF machine = "x86" THEN
        {Reloc("x86", "R_386_RELATIVE", 4096, 0, None),
         Reloc("x86", "R_386_RELATIVE", 4100, 0, None),
         Reloc("x86", "R_386_GLOB_DAT", 4104, 1, None),
         Reloc("x86", "R_386_32", 4100, 3, None),
         Reloc("x86", "R_386_PC32", 4096, 1, None),
         Reloc("x86", "R_386_PC32", 8192, 1, None)}
    ELSE IF machine = "Arm" THEN
        {Reloc("Arm", "R_ARM_RELATIVE", 4096, 0, None),
         Reloc("Arm", "R_ARM_JUMP_SLOT", 4100, 9, None),
         Reloc("Arm", "R_ARM_ABS32", 4104, 2, None),
         Reloc("Arm", "R_ARM_PC24", 4096, 1, None)}
    ELSE IF machine = "x86_64" THEN
        {Reloc("x86_64", "R_AMD64_RELATIVE", 4096, 0, Some(U64High)),
         Reloc("x86_64", "R_AMD64_GLOB_DAT", 4104, 1, Some(U64(0))),
         Reloc("x86_64", "R_AMD64_64", 0, 3, Some(U64Neg)),
         Reloc("x86_64", "R_AMD64_RELATIVE", 4096, 0, None),
         Reloc("x86_64", "R_AMD64_PC32", 4096, 1, Some(U64(0)))}
    ELSE
        {Reloc("AArch64", "R_AARCH64_RELATIVE", 4096, 0, Some(U64(8))),
         Reloc("AArch64", "R_AARCH64_JUMP_SLOT", 4104, 1, Some(U64(0))),
         Reloc("AArch64", "R_AARCH64_ABS64", 4096, 2, Some(U64Neg)),
         Reloc("AArch64", "R_AARCH64_TLSDESC", 4096, 1, Some(U64(0)))}

RelocLists(machine) == SeqsUpTo(RelocEntries(machine), MaxRelocs)

(***************************************************************************)
(* load_library and the dlopen stub: the steps of one load.                *)
(***************************************************************************)
ErrorValues == {"Io", "ElfParser", "UnsupportedRelocationEntry"}

resolver_idle == /\ sym_name = None
                 /\ sym_result = None

Init ==
    /\ host \in Hosts
    /\ entry \in {"load_library", "dlopen"}
    /\ pc = "read"
    /\ elf = None
    /\ library = None
    /\ protection = << >>
    /\ k = 0
    /\ hooks = NoHooks
    /\ relocs = << >>
    /\ outcome = "running"
    /\ ret = "pending"
    /\ resolver_idle

Fail(result) ==
    /\ outcome' = result
    /\ pc' = "return"

\* dlopen: CStr::to_str().unwrap(); load_library: fs::read(path)?, ElfBinary::new(..)?
ReadFile ==
    /\ pc = "read"
    /\ \/ /\ entry = "dlopen"
          /\ Fail("panic")
          /\ elf' = None
       \/ /\ \E e \in {"Io", "ElfParser"} : Fail(e)
          /\ elf' = None
       \/ /\ \E file \in ElfFiles : elf' = Some(file)
          /\ pc' = "allocate"
          /\ outcome' = outcome
    /\ UNCHANGED <<host, entry, library, protection, k, hooks, relocs, ret,
                   sym_name, sym_result>>

Allocate ==
    /\ pc = "allocate"
    /\ \E mmap \in {None} \cup {Some(a) : a \in MmapAddrs} :
          LET r == allocate(unwrap(elf).headers, unwrap(elf).dynsym, mmap)
          IN  /\ library' = r.library
              /\ IF r.result = "Ok"
                 THEN /\ protection' = fresh_protection(unwrap(r.library).memory_map.len)
                      /\ pc' = "load"
                      /\ outcome' = outcome
                 ELSE /\ protection' = protection
                      /\ Fail(r.result)
    /\ UNCHANGED <<host, entry, elf, k, hooks, relocs, ret, sym_name, sym_result>>

LoadSegment ==
    /\ pc = "load"
    /\ \E host_rejects \in BOOLEAN :
          LET r == load(unwrap(library), protection, unwrap(elf).headers[k + 1],
                        host_rejects)
          IN  /\ library' = Some(r.library)
              /\ protection' = r.protection
              /\ IF r.result = "Ok"
                 THEN /\ pc' = IF k + 1 = Len(unwrap(elf).headers)
                                THEN "relocate" ELSE "load"
                      /\ outcome' = outcome
                 ELSE Fail(r.result)
    /\ k' = k + 1
    /\ UNCHANGED <<host, entry, elf, hooks, relocs, ret, sym_name, sym_result>>

Relocate ==
    /\ pc = "relocate"
    /\ \E entries \in RelocLists(unwrap(elf).machine), snapshot \in HookSnapshots :
          LET r == relocate(unwrap(library), protection, snapshot, entries)
          IN  /\ hooks' = snapshot
              /\ relocs' = entries
              /\ library' = Some(r.library)
              /\ outcome' = r.result
    /\ pc' = "return"
    /\ UNCHANGED <<host, entry, elf, protection, k, ret, sym_name, sym_result>>

\* what the caller sees; unwinding_ub: a panic that leaves the extern "sysv64"
\* dlopen either aborts the process or unwinds into the calling library code
returned(caller, result, unwinding_ub) ==
    IF result = "Ok" THEN (IF caller = "dlopen" THEN "handle" ELSE "Ok")
    ELSE IF result \in ErrorValues THEN (IF caller = "dlopen" THEN "null" ELSE result)
    ELSE IF result = "panic" THEN (IF caller = "dlopen" THEN unwinding_ub ELSE "panic")
    ELSE "fault"

Return ==
    /\ pc = "return"
    /\ \E unwinding_ub \in {"abort", "unwind"} :
          ret' = returned(entry, outcome, unwinding_ub)
    /\ library' = IF outcome = "Ok" THEN library ELSE None
    /\ protection' = IF outcome = "Ok" THEN protection ELSE << >>
    /\ pc' = "done"
    /\ UNCHANGED <<host, entry, elf, k, hooks, relocs, outcome, sym_name, sym_result>>

Next == ReadFile \/ Allocate \/ LoadSegment \/ Relocate \/ Return

Spec == Init /\ [][Next]_vars

(***************************************************************************)
(* Symbol resolution on its own: symbol_finder applied to every name,      *)
(* under every hook snapshot, for libraries as allocate builds them.       *)
(***************************************************************************)
AllocatedLibraries ==
    {allocate(<<Header_text, Header_data>>, dynsym, Some(a)).library :
        dynsym \in DynsymSections \ {None}, a \in MmapAddrs}

InitResolve ==
    /\ host \in Hosts
    /\ entry = "load_library"
    /\ pc = "relocate"
    /\ elf = None
    /\ library \in AllocatedLibraries
    /\ protection = << >>
    /\ k = 0
    /\ hooks \in HookSnapshots
    /\ relocs = << >>
    /\ outcome = "running"
    /\ ret = "pending"
    /\ resolver_idle

ResolveSymbol ==
    /\ pc = "relocate"
    /\ \E symbol_name \in Names :
          /\ sym_name' = Some(symbol_name)
          /\ sym_result' = Some(symbol_finder(symbol_name, unwrap(library), hooks))
    /\ UNCHANGED <<host, hooks, loader_vars>>

NextResolve == ResolveSymbol

SpecResolve == InitResolve /\ [][NextResolve]_vars

(***************************************************************************)
(* Properties.                                                             *)
(***************************************************************************)
resolved_name == unwrap(sym_name)

resolved_addr == unwrap(sym_result)

begins_with_pthread_(n) ==
    /\ Len(n) >= 8
    /\ \A i \in 1..8 : n[i] = Name_pthread_[i]

\* C1: a name that is a key of the hook snapshot resolves to exactly the
\* hooked address, also when it begins with pthread_ or is dlopen, dlsym or
\* dlclose; no built-in stub is chosen over a hook.
C1_HookPrecedence ==
    (is_some(sym_name) /\ resolved_name \in DOMAIN hooks)
        => resolved_addr = hooks[resolved_name]

C1_Witness ==
    /\ sym_name = Some(Name_pthread_create)
    /\ Name_pthread_create \in DOMAIN hooks
    /\ sym_result = Some(HookFn(2))
    /\ resolved_addr # pthread_stub

\* C2: a name that is not hooked resolves to the pthread stub (which returns
\* zero) iff it begins with pthread_, else to the dlopen / dlsym / dlclose
\* stub iff it is exactly that word, else to the panicking fallback --
\* whatever the library's own symbols table holds.
C2_ResolverDefaults ==
    (is_some(sym_name) /\ resolved_name \notin DOMAIN hooks)
        => /\ call_stub(pthread_stub) = 0
           /\ call_stub(undefined_symbol_stub) = "panic"
           /\ resolved_addr = pthread_stub <=> begins_with_pthread_(resolved_name)
           /\ ~begins_with_pthread_(resolved_name) =>
                 /\ resolved_addr = dlopen <=> resolved_name = Name_dlopen
                 /\ resolved_addr = dlsym <=> resolved_name = Name_dlsym
                 /\ resolved_addr = dlclose <=> resolved_name = Name_dlclose
                 /\ resolved_addr = undefined_symbol_stub
                        <=> resolved_name \notin {Name_dlopen, Name_dlsym, Name_dlclose}

C2_Witness ==
    /\ sym_name = Some(Name_export)
    /\ Name_export \notin DOMAIN hooks
    /\ Name_export \in DOMAIN unwrap(library).symbols
    /\ sym_result = Some(undefined_symbol_stub)

\* the machine word of the ELF class of a relocation's architecture
elf_word_size(e) == IF e.rtype.arch \in {"x86", "Arm"} THEN 4 ELSE 8

SupportedKinds ==
    {"R_386_GLOB_DAT", "R_386_JMP_SLOT", "R_386_32", "R_386_RELATIVE",
     "R_AMD64_JMP_SLOT", "R_AMD64_GLOB_DAT", "R_AMD64_64", "R_AMD64_RELATIVE",
     "R_ARM_GLOB_DAT", "R_ARM_JUMP_SLOT", "R_ARM_ABS32", "R_ARM_RELATIVE",
     "R_AARCH64_JUMP_SLOT", "R_AARCH64_GLOB_DAT", "R_AARCH64_ABS64",
     "R_AARCH64_RELATIVE"}

RelativeKinds ==
    {"R_386_RELATIVE", "R_AMD64_RELATIVE", "R_ARM_RELATIVE", "R_AARCH64_RELATIVE"}

ZeroAddendKinds ==
    {"R_386_GLOB_DAT", "R_386_JMP_SLOT", "R_ARM_GLOB_DAT", "R_ARM_JUMP_SLOT"}

resize(w, n) == [i \in 1..n |-> IF i <= Len(w) THEN w[i] ELSE 0]

\* the n-byte host-endian word at image[offset .. offset + n]
word_at(memory_map, offset, n) == from_ne_bytes(slice(memory_map, offset, n))

\* the image as the i-th entry of the list finds it
image_before(lib, entries, i) ==
    relocate(lib, protection, hooks', SubSeq(entries, 1, i - 1)).library.memory_map

\* the value the relocation table of the specification prescribes for entry i
prescribed(lib, entries, i) ==
    LET e == entries[i]
        n == elf_word_size(e)
        addend == IF e.rtype.kind \in ZeroAddendKinds THEN Zeros(n)
                  ELSE IF e.rtype.arch \in {"x86", "Arm"}
                  THEN word_at(image_before(lib, entries, i), e.offset, n)
                  ELSE unwrap(e.addend)
        target == IF e.rtype.kind \in RelativeKinds
                  THEN resize(lib.memory_map.base, n)
                  ELSE resize(symbol_finder(lib.strings[e.index], lib, hooks'), n)
    IN  AddCarry(target, addend, 1, 0)

relocate_succeeds == pc = "relocate" /\ pc' = "return" /\ outcome' = "Ok"

\* no two entries of the list target overlapping ELF-class words
distinct_words(entries) ==
    \A i, j \in 1..Len(entries) :
        i # j => \/ entries[i].offset + elf_word_size(entries[i]) <= entries[j].offset
                 \/ entries[j].offset + elf_word_size(entries[j]) <= entries[i].offset

\* C3: after relocate returns success, for every entry of a supported kind
\* the ELF-class word at image[offset ..] equals the prescribed value
\* (resolve(name) + addend, or image_base + addend), whatever entries were
\* processed before or after it.  (Stated for lists whose entries target
\* distinct words; two entries patching the same word cannot both stand.)
C3_RelocationTotality ==
    [][(relocate_succeeds /\ distinct_words(relocs')) =>
          \A i \in 1..Len(relocs') :
             relocs'[i].rtype.kind \in SupportedKinds =>
                word_at(unwrap(library').memory_map, relocs'[i].offset,
                        elf_word_size(relocs'[i]))
                   = prescribed(unwrap(library), relocs', i)]_vars

\* C4: a relocation list that contains an entry of an unsupported kind ends
\* the load in the error UnsupportedRelocation, whatever the entry's offset,
\* index and addend and whatever precedes it, and no library is handed out.
C4_UnsupportedRelocation ==
    (pc \in {"return", "done"}
        /\ \E i \in 1..Len(relocs) : relocs[i].rtype.kind \notin SupportedKinds)
    => /\ outcome = "UnsupportedRelocationEntry"
       /\ pc = "done" => (library = None /\ ret \in {"UnsupportedRelocationEntry", "null"})

\* the loadable span of section 4.5.1 of the specification
loadable_span(headers) ==
    LET idx == 1..Len(headers)
        size(h) == IF h.file_size > h.mem_size THEN h.file_size ELSE h.mem_size
    IN  IF idx = {} THEN 0
        ELSE page_ceil(SetMax({headers[i].virtual_addr + size(headers[i]) : i \in idx}))
               - page_floor(SetMin({headers[i].virtual_addr : i \in idx}))

\* C5: once allocate has succeeded, the image length is a multiple of the
\* page size and at least the loadable span, and every PT_LOAD header's
\* [virtual_addr, virtual_addr + file_size) lies inside [0, image.len()).
C5_ImageBounds ==
    (pc \in {"load", "relocate"} /\ is_some(library))
    => LET len == unwrap(library).memory_map.len
           headers == unwrap(elf).headers
       IN  /\ len % page_size = 0
           /\ len >= loadable_span(headers)
           /\ \A i \in 1..Len(headers) :
                 headers[i].virtual_addr + headers[i].file_size <= len

\* the maximum page size of the Android target a library is built for
android_max_page_size(machine) == IF machine = "AArch64" THEN 65536 ELSE 4096

\* C6: when the host page size exceeds the Android target's maximum page
\* size, in particular on a host with 16 KiB pages, every segment's page
\* span is READ | WRITE | EXECUTE once all segments have been loaded.
C6_LargePageCompensation ==
    (pc = "relocate" /\ is_some(elf)
        /\ (page_size > android_max_page_size(unwrap(elf).machine) \/ page_size = 16384))
    => \A i \in 1..Len(unwrap(elf).headers) :
          \A p \in protect_pages(unwrap(elf).headers[i]) \cap DOMAIN protection :
             protection[p] = {"R", "W", "X"}

\* the segment's bytes fit the image and its pages are writable, so load
\* gets as far as the protection change
copy_succeeds ==
    LET h == unwrap(elf).headers[k + 1]
    IN  /\ h.virtual_addr + h.file_size <= unwrap(library).memory_map.len
        /\ accessible(protection, h.virtual_addr, h.file_size, "W")

\* C7: when the host rejects a segment's protection change, load fails with
\* an error value that reaches the caller of load_library; the process does
\* not abort.
C7_ProtectionFailureIsError ==
    [][(pc = "load" /\ pc' = "return" /\ copy_succeeds) => outcome' \in ErrorValues]_vars

\* C8: a successful relocate changes no byte of the image outside the
\* ELF-class words of its entries: image[offset .. offset + 4] for x86 and
\* Arm, image[offset .. offset + 8] for x86_64 and AArch64, on every host.
C8_RelocationWordSize ==
    [][relocate_succeeds =>
          \A o \in DOMAIN unwrap(library).memory_map.bytes
                      \cup DOMAIN unwrap(library').memory_map.bytes :
             byte_at(unwrap(library').memory_map, o) # byte_at(unwrap(library).memory_map, o)
                => \E i \in 1..Len(relocs') :
                      /\ o >= relocs'[i].offset
                      /\ o < relocs'[i].offset + elf_word_size(relocs'[i])]_vars

\* C9: the dlopen stub returns a handle iff the nested load_library
\* succeeds and null for every failure of that load; no failure aborts or
\* propagates into the calling code.  (Stated for loads whose file was read
\* and decoded.)
C9_DlopenErrorTranslation ==
    (entry = "dlopen" /\ pc = "done" /\ is_some(elf))
    => /\ ret = "handle" <=> outcome = "Ok"
       /\ outcome # "Ok" => ret = "null"

\* C10: strings has exactly the keys 0..n-1 with strings[i] the name of the
\* i-th .dynsym entry, symbols holds for every name its last entry, and
\* both stay so in every state from allocate on, through load and relocate.
C10_SymbolTablesFinal ==
    is_some(library)
    => LET entries == unwrap(unwrap(elf).dynsym).entries
           n == Len(entries)
           lib == unwrap(library)
           last(name) == SetMax({i \in 1..n : entries[i].name = name})
       IN  /\ DOMAIN lib.strings = 0..(n - 1)
           /\ \A i \in 0..(n - 1) : lib.strings[i] = entries[i + 1].name
           /\ DOMAIN lib.symbols = {entries[i].name : i \in 1..n}
           /\ \A name \in DOMAIN lib.symbols :
                 lib.symbols[name] = Sym(name, entries[last(name)].value)

C10_Witness ==
    /\ pc = "return"
    /\ outcome = "UnsupportedRelocationEntry"
    /\ k = 2
    /\ Len(relocs) = 2
    /\ is_some(library)
    /\ relocs[1].rtype.kind \in SupportedKinds
    /\ Name_export \in DOMAIN unwrap(library).symbols
    /\ unwrap(library).symbols[Name_export].value = 8

====
